---- MODULE Spec2Model ----
(***************************************************************************)
(* Merge joins over ordered iterators (src/src/lib.rs).                    *)
(*                                                                         *)
(* The crate wraps one or two iterators in a join adaptor; the adaptor's   *)
(* next() pulls from the wrapped iterators.  The wrapped iterators here    *)
(* are iterators over the sequences input[n]; the element at place i of    *)
(* input n carries the key input[n][i] and, for a map iterator, the value  *)
(* <<n, i>>.  The joins never inspect a value, so a value that names the   *)
(* element it came from stands for any value.                              *)
(***************************************************************************)
EXTENDS Integers, Sequences, FiniteSets, TLC

\* Bounds of the model.
MaxKey == 4        \* strictly ascending inputs take their keys from 1..MaxKey
MaxAnyKey == 2     \* unordered inputs take their keys from 1..MaxAnyKey
MaxLen == 3        \* unordered inputs hold at most MaxLen elements
MaxLoopKey == 3    \* statement-level runs take their keys from 1..MaxLoopKey

VARIABLES
    input,      \* input[n]: the keys the iterator over input n yields, in order
    pos,        \* pos[n]: how many elements have been pulled from input n
    adaptor,    \* the join adaptor (Unbuilt before a combinator is called)
    comb,       \* which combinator built the adaptor
    log,        \* the pulls of the latest next() call, in order
    out,        \* the items the adaptor's next() has returned so far
    last,       \* what the latest next() call returned
    seenNone,   \* whether some next() call has returned None
    run         \* a next() call taken statement by statement (SpecLoop only)

vars == <<input, pos, adaptor, comb, log, out, last, seenNone, run>>

Src == {"s1", "s2", "s3"}

\* Option<T>, and the panic of a failed expect().
None == [t |-> "None"]
Some(x) == [t |-> "Some", val |-> x]
Panic == [t |-> "Panic"]

\* Ord::cmp on keys.
Cmp(x, y) == IF x < y THEN "Less" ELSE IF x = y THEN "Equal" ELSE "Greater"

(***************************************************************************)
(* The wrapped container iterators.  w = [pos, log] is the part of the     *)
(* state a pull changes.                                                   *)
(***************************************************************************)
MapIter(n) == [tag |-> "MapIter", src |-> n]
SetIter(n) == [tag |-> "SetIter", src |-> n]

Pulled(w, n, some) ==
    [pos |-> IF some THEN [w.pos EXCEPT ![n] = @ + 1] ELSE w.pos,
     log |-> Append(w.log, [src |-> n, some |-> some])]

\* next() of a map iterator: the next (key, value) pair, or None at the end.
MapIter_next(it, w) ==
    LET n == it.src
        i == w.pos[n] + 1
    IN  IF i <= Len(input[n])
        THEN [r |-> Some([k |-> input[n][i], v |-> <<n, i>>]), w |-> Pulled(w, n, TRUE)]
        ELSE [r |-> None, w |-> Pulled(w, n, FALSE)]

\* next() of a set iterator: the next key, or None at the end.
SetIter_next(it, w) ==
    LET n == it.src
        i == w.pos[n] + 1
    IN  IF i <= Len(input[n])
        THEN [r |-> Some(input[n][i]), w |-> Pulled(w, n, TRUE)]
        ELSE [r |-> None, w |-> Pulled(w, n, FALSE)]

RECURSIVE SetNext(_, _)
RECURSIVE InnerJoinSet_next(_, _)
RECURSIVE InnerJoinSet_loop(_, _, _, _)
RECURSIVE InnerJoinMap_loop(_, _, _, _)
RECURSIVE InnerJoinMapSet_loop(_, _, _, _)
RECURSIVE InnerJoinSet_loopSwapped(_, _, _, _)
RECURSIVE InnerJoinSet_loopSameKey(_, _, _, _)
RECURSIVE InnerJoinMap_loopStale(_, _, _, _)
RECURSIVE InnerJoinMapSet_loopStale(_, _, _, _)
RECURSIVE InnerJoinMap_loopPrefetch(_, _, _, _)
RECURSIVE InnerJoinSet_loopGreaterEnds(_, _, _, _)
RECURSIVE InnerJoinMapSet_loopLessEnds(_, _, _, _)

\* next() of an OrderedMapIterator.
MapNext(it, w) == MapIter_next(it, w)

(***************************************************************************)
(* InnerJoinSet::next                                                      *)
(***************************************************************************)
\* Faulty variant: each arm advances the other side.
InnerJoinSet_loopSwapped(self, w, key_a, key_b) ==
    CASE Cmp(key_a, key_b) = "Less" ->
            LET x == SetNext(self.b, w)
            IN  IF x.r = None THEN [r |-> None, w |-> x.w]
                ELSE InnerJoinSet_loopSwapped(self, x.w, key_a, x.r.val)
      [] Cmp(key_a, key_b) = "Equal" -> [r |-> Some(key_a), w |-> w]
      [] Cmp(key_a, key_b) = "Greater" ->
            LET x == SetNext(self.a, w)
            IN  IF x.r = None THEN [r |-> None, w |-> x.w]
                ELSE InnerJoinSet_loopSwapped(self, x.w, x.r.val, key_b)

\* Faulty variant: the Greater arm stores the key it pulled from b in key_a.
InnerJoinSet_loopSameKey(self, w, key_a, key_b) ==
    CASE Cmp(key_a, key_b) = "Less" ->
            LET x == SetNext(self.a, w)
            IN  IF x.r = None THEN [r |-> None, w |-> x.w]
                ELSE InnerJoinSet_loopSameKey(self, x.w, x.r.val, key_b)
      [] Cmp(key_a, key_b) = "Equal" -> [r |-> Some(key_a), w |-> w]
      [] Cmp(key_a, key_b) = "Greater" ->
            LET x == SetNext(self.b, w)
            IN  IF x.r = None THEN [r |-> None, w |-> x.w]
                ELSE InnerJoinSet_loopSameKey(self, x.w, x.r.val, key_b)

\* Faulty variant: the Greater arm ends the join instead of advancing b.
InnerJoinSet_loopGreaterEnds(self, w, key_a, key_b) ==
    CASE Cmp(key_a, key_b) = "Less" ->
            LET x == SetNext(self.a, w)
            IN  IF x.r = None THEN [r |-> None, w |-> x.w]
                ELSE InnerJoinSet_loopGreaterEnds(self, x.w, x.r.val, key_b)
      [] Cmp(key_a, key_b) = "Equal" -> [r |-> Some(key_a), w |-> w]
      [] Cmp(key_a, key_b) = "Greater" -> [r |-> None, w |-> w]

InnerJoinSet_loop(self, w, key_a, key_b) ==
    CASE Cmp(key_a, key_b) = "Less" ->
            LET x == SetNext(self.a, w)
            IN  IF x.r = None THEN [r |-> None, w |-> x.w]
                ELSE InnerJoinSet_loop(self, x.w, x.r.val, key_b)
      [] Cmp(key_a, key_b) = "Equal" -> [r |-> Some(key_a), w |-> w]
      [] Cmp(key_a, key_b) = "Greater" ->
            LET x == SetNext(self.b, w)
            IN  IF x.r = None THEN [r |-> None, w |-> x.w]
                ELSE InnerJoinSet_loop(self, x.w, key_a, x.r.val)

InnerJoinSet_next(self, w) ==
    LET xa == SetNext(self.a, w)
    IN  IF xa.r = None THEN [r |-> None, w |-> xa.w]
        ELSE LET xb == SetNext(self.b, xa.w)
             IN  IF xb.r = None THEN [r |-> None, w |-> xb.w]
                 ELSE InnerJoinSet_loop(self, xb.w, xa.r.val, xb.r.val)

\* next() of an OrderedSetIterator: a container's iterator, or an InnerJoinSet
\* (which is an OrderedSetIterator itself).
SetNext(it, w) ==
    IF it.tag = "SetIter" THEN SetIter_next(it, w) ELSE InnerJoinSet_next(it, w)

(***************************************************************************)
(* InnerJoinMap::next                                                      *)
(***************************************************************************)
\* Faulty variant: the Less arm replaces key_a and keeps the old data_a.
InnerJoinMap_loopStale(self, w, a, b) ==
    CASE Cmp(a.k, b.k) = "Less" ->
            LET x == MapNext(self.a, w)
            IN  IF x.r = None THEN [r |-> None, w |-> x.w]
                ELSE InnerJoinMap_loopStale(self, x.w, [k |-> x.r.val.k, v |-> a.v], b)
      [] Cmp(a.k, b.k) = "Equal" -> [r |-> Some([k |-> a.k, v |-> <<a.v, b.v>>]), w |-> w]
      [] Cmp(a.k, b.k) = "Greater" ->
            LET x == MapNext(self.b, w)
            IN  IF x.r = None THEN [r |-> None, w |-> x.w]
                ELSE InnerJoinMap_loopStale(self, x.w, a, x.r.val)

\* Faulty variant: the Equal arm pulls the next element of b before it returns.
InnerJoinMap_loopPrefetch(self, w, a, b) ==
    CASE Cmp(a.k, b.k) = "Less" ->
            LET x == MapNext(self.a, w)
            IN  IF x.r = None THEN [r |-> None, w |-> x.w]
                ELSE InnerJoinMap_loopPrefetch(self, x.w, x.r.val, b)
      [] Cmp(a.k, b.k) = "Equal" ->
            [r |-> Some([k |-> a.k, v |-> <<a.v, b.v>>]), w |-> MapNext(self.b, w).w]
      [] Cmp(a.k, b.k) = "Greater" ->
            LET x == MapNext(self.b, w)
            IN  IF x.r = None THEN [r |-> None, w |-> x.w]
                ELSE InnerJoinMap_loopPrefetch(self, x.w, a, x.r.val)

InnerJoinMap_loop(self, w, a, b) ==
    CASE Cmp(a.k, b.k) = "Less" ->
            LET x == MapNext(self.a, w)
            IN  IF x.r = None THEN [r |-> None, w |-> x.w]
                ELSE InnerJoinMap_loop(self, x.w, x.r.val, b)
      [] Cmp(a.k, b.k) = "Equal" -> [r |-> Some([k |-> a.k, v |-> <<a.v, b.v>>]), w |-> w]
      [] Cmp(a.k, b.k) = "Greater" ->
            LET x == MapNext(self.b, w)
            IN  IF x.r = None THEN [r |-> None, w |-> x.w]
                ELSE InnerJoinMap_loop(self, x.w, a, x.r.val)

\* Faulty variant: both inputs are pulled before either result is looked at.
InnerJoinMap_nextBothFirst(self, w) ==
    LET xa == MapNext(self.a, w)
        xb == MapNext(self.b, xa.w)
    IN  IF xa.r = None \/ xb.r = None THEN [r |-> None, w |-> xb.w]
        ELSE InnerJoinMap_loop(self, xb.w, xa.r.val, xb.r.val)

InnerJoinMap_next(self, w) ==
    LET xa == MapNext(self.a, w)
    IN  IF xa.r = None THEN [r |-> None, w |-> xa.w]
        ELSE LET xb == MapNext(self.b, xa.w)
             IN  IF xb.r = None THEN [r |-> None, w |-> xb.w]
                 ELSE InnerJoinMap_loop(self, xb.w, xa.r.val, xb.r.val)

(***************************************************************************)
(* InnerJoinMapSet::next: the set is pulled first, and compared on the     *)
(* left.                                                                   *)
(***************************************************************************)
\* Faulty variant: the Greater arm replaces key_map and keeps the old data.
InnerJoinMapSet_loopStale(self, w, key_set, m) ==
    CASE Cmp(key_set, m.k) = "Less" ->
            LET x == SetNext(self.set, w)
            IN  IF x.r = None THEN [r |-> None, w |-> x.w]
                ELSE InnerJoinMapSet_loopStale(self, x.w, x.r.val, m)
      [] Cmp(key_set, m.k) = "Equal" -> [r |-> Some([k |-> key_set, v |-> m.v]), w |-> w]
      [] Cmp(key_set, m.k) = "Greater" ->
            LET x == MapNext(self.map, w)
            IN  IF x.r = None THEN [r |-> None, w |-> x.w]
                ELSE InnerJoinMapSet_loopStale(self, x.w, key_set, [k |-> x.r.val.k, v |-> m.v])

\* Faulty variant: the Less arm returns None instead of advancing the set.
InnerJoinMapSet_loopLessEnds(self, w, key_set, m) ==
    CASE Cmp(key_set, m.k) = "Less" -> [r |-> None, w |-> w]
      [] Cmp(key_set, m.k) = "Equal" -> [r |-> Some([k |-> key_set, v |-> m.v]), w |-> w]
      [] Cmp(key_set, m.k) = "Greater" ->
            LET x == MapNext(self.map, w)
            IN  IF x.r = None THEN [r |-> None, w |-> x.w]
                ELSE InnerJoinMapSet_loopLessEnds(self, x.w, key_set, x.r.val)

InnerJoinMapSet_loop(self, w, key_set, m) ==
    CASE Cmp(key_set, m.k) = "Less" ->
            LET x == SetNext(self.set, w)
            IN  IF x.r = None THEN [r |-> None, w |-> x.w]
                ELSE InnerJoinMapSet_loop(self, x.w, x.r.val, m)
      [] Cmp(key_set, m.k) = "Equal" -> [r |-> Some([k |-> key_set, v |-> m.v]), w |-> w]
      [] Cmp(key_set, m.k) = "Greater" ->
            LET x == MapNext(self.map, w)
            IN  IF x.r = None THEN [r |-> None, w |-> x.w]
                ELSE InnerJoinMapSet_loop(self, x.w, key_set, x.r.val)

InnerJoinMapSet_next(self, w) ==
    LET xs == SetNext(self.set, w)
    IN  IF xs.r = None THEN [r |-> None, w |-> xs.w]
        ELSE LET xm == MapNext(self.map, xs.w)
             IN  IF xm.r = None THEN [r |-> None, w |-> xm.w]
                 ELSE InnerJoinMapSet_loop(self, xm.w, xs.r.val, xm.r.val)

(***************************************************************************)
(* std::iter::Peekable: peeked is None until peek() has pulled, and then   *)
(* holds what the pull returned until next() takes it.                     *)
(***************************************************************************)
Peekable_new(it) == [iter |-> it, peeked |-> None]

Peekable_peek(p, w) ==
    IF p.peeked # None
    THEN [r |-> p.peeked.val, p |-> p, w |-> w]
    ELSE LET x == MapNext(p.iter, w)
         IN  [r |-> x.r, p |-> [p EXCEPT !.peeked = Some(x.r)], w |-> x.w]

\* Faulty variant: next() pulls anew and throws away what peek() had pulled.
Peekable_nextSkipsSlot(p, w) ==
    LET x == MapNext(p.iter, w)
    IN  [r |-> x.r, p |-> [p EXCEPT !.peeked = None], w |-> x.w]

Peekable_next(p, w) ==
    IF p.peeked # None
    THEN [r |-> p.peeked.val, p |-> [p EXCEPT !.peeked = None], w |-> w]
    ELSE LET x == MapNext(p.iter, w)
         IN  [r |-> x.r, p |-> p, w |-> x.w]

(***************************************************************************)
(* OuterJoin::next                                                         *)
(***************************************************************************)
\* Faulty variant: the keys are compared the other way round, ka.cmp(kb).
OuterJoin_whichReversed(pa, pb) ==
    CASE pa # None /\ pb # None -> Cmp(pa.val.k, pb.val.k)
      [] pa = None /\ pb # None -> "Less"
      [] pa # None /\ pb = None -> "Greater"
      [] pa = None /\ pb = None -> "Return"

\* Faulty variant: the arms for one exhausted side name the wrong side.
OuterJoin_whichWrongSide(pa, pb) ==
    CASE pa # None /\ pb # None -> Cmp(pb.val.k, pa.val.k)
      [] pa = None /\ pb # None -> "Greater"
      [] pa # None /\ pb = None -> "Less"
      [] pa = None /\ pb = None -> "Return"

\* Faulty variant: the join ends as soon as one side has run out.
OuterJoin_whichEndsEarly(pa, pb) ==
    CASE pa # None /\ pb # None -> Cmp(pb.val.k, pa.val.k)
      [] pa = None /\ pb # None -> "Return"
      [] pa # None /\ pb = None -> "Return"
      [] pa = None /\ pb = None -> "Return"

\* The match on (self.left.peek(), self.right.peek()); "Return" is return None.
OuterJoin_which(pa, pb) ==
    CASE pa # None /\ pb # None -> Cmp(pb.val.k, pa.val.k)
      [] pa = None /\ pb # None -> "Less"
      [] pa # None /\ pb = None -> "Greater"
      [] pa = None /\ pb = None -> "Return"

\* self.left.next().expect("no value found") and its like: the element, or a panic.
\* Faulty variant: the Equal arm reads the right element and leaves it in its slot.
OuterJoin_takeLeftOnly(self, w, which) ==
    CASE which = "Equal" ->
            LET xl == Peekable_next(self.left, w)
                xr == Peekable_peek(self.right, xl.w)
                it2 == [self EXCEPT !.left = xl.p, !.right = xr.p]
            IN  IF xl.r = None \/ xr.r = None THEN [r |-> Panic, it |-> it2, w |-> xr.w]
                ELSE [r |-> Some([k |-> xl.r.val.k,
                                  v |-> <<Some(xl.r.val.v), Some(xr.r.val.v)>>]),
                      it |-> it2, w |-> xr.w]
      [] which = "Less" ->
            LET xr == Peekable_next(self.right, w)
                it2 == [self EXCEPT !.right = xr.p]
            IN  IF xr.r = None THEN [r |-> Panic, it |-> it2, w |-> xr.w]
                ELSE [r |-> Some([k |-> xr.r.val.k, v |-> <<None, Some(xr.r.val.v)>>]),
                      it |-> it2, w |-> xr.w]
      [] which = "Greater" ->
            LET xl == Peekable_next(self.left, w)
                it2 == [self EXCEPT !.left = xl.p]
            IN  IF xl.r = None THEN [r |-> Panic, it |-> it2, w |-> xl.w]
                ELSE [r |-> Some([k |-> xl.r.val.k, v |-> <<Some(xl.r.val.v), None>>]),
                      it |-> it2, w |-> xl.w]

\* Faulty variant: the Less arm takes the right element and leaves its value out.
OuterJoin_takeDropsRight(self, w, which) ==
    CASE which = "Equal" ->
            LET xl == Peekable_next(self.left, w)
            IN  IF xl.r = None THEN [r |-> Panic, it |-> [self EXCEPT !.left = xl.p], w |-> xl.w]
                ELSE LET xr == Peekable_next(self.right, xl.w)
                         it2 == [self EXCEPT !.left = xl.p, !.right = xr.p]
                     IN  IF xr.r = None THEN [r |-> Panic, it |-> it2, w |-> xr.w]
                         ELSE [r |-> Some([k |-> xl.r.val.k,
                                           v |-> <<Some(xl.r.val.v), Some(xr.r.val.v)>>]),
                               it |-> it2, w |-> xr.w]
      [] which = "Less" ->
            LET xr == Peekable_next(self.right, w)
                it2 == [self EXCEPT !.right = xr.p]
            IN  IF xr.r = None THEN [r |-> Panic, it |-> it2, w |-> xr.w]
                ELSE [r |-> Some([k |-> xr.r.val.k, v |-> <<None, None>>]),
                      it |-> it2, w |-> xr.w]
      [] which = "Greater" ->
            LET xl == Peekable_next(self.left, w)
                it2 == [self EXCEPT !.left = xl.p]
            IN  IF xl.r = None THEN [r |-> Panic, it |-> it2, w |-> xl.w]
                ELSE [r |-> Some([k |-> xl.r.val.k, v |-> <<Some(xl.r.val.v), None>>]),
                      it |-> it2, w |-> xl.w]

\* Faulty variant: the Equal arm puts the right value in the left slot and the
\* left value in the right slot.
OuterJoin_takeSwapped(self, w, which) ==
    CASE which = "Equal" ->
            LET xl == Peekable_next(self.left, w)
            IN  IF xl.r = None THEN [r |-> Panic, it |-> [self EXCEPT !.left = xl.p], w |-> xl.w]
                ELSE LET xr == Peekable_next(self.right, xl.w)
                         it2 == [self EXCEPT !.left = xl.p, !.right = xr.p]
                     IN  IF xr.r = None THEN [r |-> Panic, it |-> it2, w |-> xr.w]
                         ELSE [r |-> Some([k |-> xl.r.val.k,
                                           v |-> <<Some(xr.r.val.v), Some(xl.r.val.v)>>]),
                               it |-> it2, w |-> xr.w]
      [] which = "Less" ->
            LET xr == Peekable_next(self.right, w)
                it2 == [self EXCEPT !.right = xr.p]
            IN  IF xr.r = None THEN [r |-> Panic, it |-> it2, w |-> xr.w]
                ELSE [r |-> Some([k |-> xr.r.val.k, v |-> <<None, Some(xr.r.val.v)>>]),
                      it |-> it2, w |-> xr.w]
      [] which = "Greater" ->
            LET xl == Peekable_next(self.left, w)
                it2 == [self EXCEPT !.left = xl.p]
            IN  IF xl.r = None THEN [r |-> Panic, it |-> it2, w |-> xl.w]
                ELSE [r |-> Some([k |-> xl.r.val.k, v |-> <<Some(xl.r.val.v), None>>]),
                      it |-> it2, w |-> xl.w]

OuterJoin_take(self, w, which) ==
    CASE which = "Equal" ->
            LET xl == Peekable_next(self.left, w)
            IN  IF xl.r = None THEN [r |-> Panic, it |-> [self EXCEPT !.left = xl.p], w |-> xl.w]
                ELSE LET xr == Peekable_next(self.right, xl.w)
                         it2 == [self EXCEPT !.left = xl.p, !.right = xr.p]
                     IN  IF xr.r = None THEN [r |-> Panic, it |-> it2, w |-> xr.w]
                         ELSE [r |-> Some([k |-> xl.r.val.k,
                                           v |-> <<Some(xl.r.val.v), Some(xr.r.val.v)>>]),
                               it |-> it2, w |-> xr.w]
      [] which = "Less" ->
            LET xr == Peekable_next(self.right, w)
                it2 == [self EXCEPT !.right = xr.p]
            IN  IF xr.r = None THEN [r |-> Panic, it |-> it2, w |-> xr.w]
                ELSE [r |-> Some([k |-> xr.r.val.k, v |-> <<None, Some(xr.r.val.v)>>]),
                      it |-> it2, w |-> xr.w]
      [] which = "Greater" ->
            LET xl == Peekable_next(self.left, w)
                it2 == [self EXCEPT !.left = xl.p]
            IN  IF xl.r = None THEN [r |-> Panic, it |-> it2, w |-> xl.w]
                ELSE [r |-> Some([k |-> xl.r.val.k, v |-> <<Some(xl.r.val.v), None>>]),
                      it |-> it2, w |-> xl.w]

OuterJoin_next(self, w) ==
    LET pl == Peekable_peek(self.left, w)
        pr == Peekable_peek(self.right, pl.w)
        it1 == [self EXCEPT !.left = pl.p, !.right = pr.p]
        which == OuterJoin_which(pl.r, pr.r)
    IN  IF which = "Return" THEN [r |-> None, it |-> it1, w |-> pr.w]
        ELSE OuterJoin_take(it1, pr.w, which)

(***************************************************************************)
(* The combinators.  Each builds the adaptor; w is handed through so that  *)
(* what a combinator pulls, if anything, shows.                            *)
(***************************************************************************)
OrderedMapIterator_inner_join_map(self, map, w) ==
    [it |-> [tag |-> "InnerJoinMap", a |-> self, b |-> map], w |-> w]

OrderedMapIterator_inner_join_set(self, set, w) ==
    [it |-> [tag |-> "InnerJoinMapSet", map |-> self, set |-> set], w |-> w]

\* Faulty variant: the combinator fills the left look-ahead slot at once.
OrderedMapIterator_outer_joinEager(self, other, w) ==
    LET x == Peekable_peek(Peekable_new(self), w)
    IN  [it |-> [tag |-> "OuterJoin", left |-> x.p, right |-> Peekable_new(other)],
         w |-> x.w]

OrderedMapIterator_outer_join(self, other, w) ==
    [it |-> [tag |-> "OuterJoin", left |-> Peekable_new(self), right |-> Peekable_new(other)],
     w |-> w]

OrderedSetIterator_inner_join_map(self, map, w) ==
    [it |-> [tag |-> "InnerJoinMapSet", map |-> map, set |-> self], w |-> w]

OrderedSetIterator_inner_join_set(self, map, w) ==
    [it |-> [tag |-> "InnerJoinSet", a |-> self, b |-> map], w |-> w]

(***************************************************************************)
(* The inputs.                                                             *)
(***************************************************************************)
StrictlyAscending(s) == \A i \in 1..(Len(s) - 1) : s[i] < s[i + 1]

RECURSIVE SeqOfSet(_)
\* The elements of a set of integers, ascending.
SeqOfSet(S) ==
    IF S = {} THEN <<>>
    ELSE LET m == CHOOSE x \in S : \A y \in S : x <= y
         IN  <<m>> \o SeqOfSet(S \ {m})

AscSeqs == {SeqOfSet(S) : S \in SUBSET (1..MaxKey)}
AnySeqs == UNION {[1..n -> 1..MaxAnyKey] : n \in 0..MaxLen}

Unbuilt == [tag |-> "Unbuilt"]
\* last before the first next() call.
NotCalled == [called |-> FALSE, r |-> None]

InitWith(Inputs) ==
    /\ \E A \in Inputs, B \in Inputs : input = [n \in Src |-> CASE n = "s1" -> A
                                                                [] n = "s2" -> B
                                                                [] n = "s3" -> <<>>]
    /\ pos = [n \in Src |-> 0]
    /\ adaptor = Unbuilt
    /\ comb = "none"
    /\ log = <<>>
    /\ out = <<>>
    /\ last = NotCalled
    /\ seenNone = FALSE

\* run where next() is taken as one step.
NoRun == [pc |-> "off"]

\* Inputs that keep the contract: strictly ascending keys.
Init == InitWith(AscSeqs) /\ run = NoRun

\* Any inputs, ascending or not.
InitAny == InitWith(AnySeqs) /\ run = NoRun

(***************************************************************************)
(* The actions: a combinator call, or a next() call on the adaptor.        *)
(***************************************************************************)
World == [pos |-> pos, log |-> <<>>]

Build(c, x) ==
    /\ adaptor = Unbuilt
    /\ adaptor' = x.it
    /\ comb' = c
    /\ pos' = x.w.pos
    /\ log' = x.w.log
    /\ UNCHANGED <<input, out, last, seenNone, run>>

\* s1.inner_join_map(s2), both maps
Call_inner_join_map ==
    Build("map.inner_join_map",
          OrderedMapIterator_inner_join_map(MapIter("s1"), MapIter("s2"), World))

\* s1.inner_join_set(s2), s1 a map and s2 a set
Call_map_inner_join_set ==
    Build("map.inner_join_set",
          OrderedMapIterator_inner_join_set(MapIter("s1"), SetIter("s2"), World))

\* s2.inner_join_map(s1), s2 a set and s1 a map
Call_set_inner_join_map ==
    Build("set.inner_join_map",
          OrderedSetIterator_inner_join_map(SetIter("s2"), MapIter("s1"), World))

\* s1.inner_join_set(s2), both sets
Call_set_inner_join_set ==
    Build("set.inner_join_set",
          OrderedSetIterator_inner_join_set(SetIter("s1"), SetIter("s2"), World))

\* s1.outer_join(s2), both maps
Call_outer_join ==
    Build("outer_join",
          OrderedMapIterator_outer_join(MapIter("s1"), MapIter("s2"), World))

\* s1.inner_join_set(s2).inner_join_set(s3): the InnerJoinSet just built becomes the
\* left input of another one, whose right input is a third ascending set.
Call_chain ==
    /\ comb = "set.inner_join_set"
    /\ last = NotCalled
    /\ \E C \in AscSeqs :
          LET x == OrderedSetIterator_inner_join_set(adaptor, SetIter("s3"), World)
          IN  /\ input' = [input EXCEPT !["s3"] = C]
              /\ adaptor' = x.it
              /\ comb' = "chain"
              /\ pos' = x.w.pos
              /\ log' = x.w.log
    /\ UNCHANGED <<out, last, seenNone, run>>

Returned(x) ==
    /\ last.r # Panic
    /\ pos' = x.w.pos
    /\ log' = x.w.log
    /\ last' = [called |-> TRUE, r |-> x.r]
    /\ out' = IF x.r.t = "Some" THEN Append(out, x.r.val) ELSE out
    /\ seenNone' = (seenNone \/ x.r = None)
    /\ UNCHANGED <<input, comb, run>>

Next_InnerJoinMap ==
    /\ adaptor.tag = "InnerJoinMap"
    /\ Returned(InnerJoinMap_next(adaptor, World))
    /\ UNCHANGED adaptor

Next_InnerJoinMapSet ==
    /\ adaptor.tag = "InnerJoinMapSet"
    /\ Returned(InnerJoinMapSet_next(adaptor, World))
    /\ UNCHANGED adaptor

Next_InnerJoinSet ==
    /\ adaptor.tag = "InnerJoinSet"
    /\ Returned(InnerJoinSet_next(adaptor, World))
    /\ UNCHANGED adaptor

Next_OuterJoin ==
    /\ adaptor.tag = "OuterJoin"
    /\ LET x == OuterJoin_next(adaptor, World)
       IN  /\ Returned(x)
           /\ adaptor' = x.it

Next ==
    \/ Call_inner_join_map
    \/ Call_map_inner_join_set
    \/ Call_set_inner_join_map
    \/ Call_set_inner_join_set
    \/ Call_outer_join
    \/ Call_chain
    \/ Next_InnerJoinMap
    \/ Next_InnerJoinMapSet
    \/ Next_InnerJoinSet
    \/ Next_OuterJoin

Spec == Init /\ [][Next]_vars

\* The two-input adaptors over any inputs.
NextAny ==
    \/ Call_inner_join_map
    \/ Call_map_inner_join_set
    \/ Call_set_inner_join_map
    \/ Call_set_inner_join_set
    \/ Call_outer_join
    \/ Next_InnerJoinMap
    \/ Next_InnerJoinMapSet
    \/ Next_InnerJoinSet
    \/ Next_OuterJoin

SpecAny == InitAny /\ [][NextAny]_vars

(***************************************************************************)
(* The inner joins' next() statement by statement, over inputs that may    *)
(* never end.  An input that never ends yields the keys of input[n] and    *)
(* then the same keys again, Period higher each round: element i of round  *)
(* r has key input[n][i] + Period * r, so its keys are strictly ascending. *)
(* run.cur[n] is the place of the element pulled last, run.loc holds the   *)
(* locals of the call (key_a, data_a, ...), run.ret what it returned.      *)
(***************************************************************************)
LoopSeqs == {SeqOfSet(S) : S \in SUBSET (1..MaxLoopKey)}
Period == MaxLoopKey

Pending == [t |-> "Pending"]
NoLocals == <<>>
KeyFields == {"key_a", "key_b", "key_set", "key_map"}

InitLoop ==
    /\ InitWith(LoopSeqs)
    /\ \E cyc \in BOOLEAN :
          /\ cyc => (input["s1"] # <<>> /\ input["s2"] # <<>>)
          /\ run = [cyc |-> cyc, pc |-> "idle",
                    cur |-> [n \in {"s1", "s2"} |-> [i |-> 0, r |-> 0]],
                    loc |-> NoLocals, ret |-> Pending]

\* next() of the iterator over input n: the place of the next element, if any.
Cursor_next(n) ==
    LET c == run.cur[n]
    IN  IF c.i < Len(input[n]) THEN [some |-> TRUE, i |-> c.i + 1, r |-> c.r]
        ELSE IF run.cyc THEN [some |-> TRUE, i |-> 1, r |-> c.r + 1]
        ELSE [some |-> FALSE, i |-> c.i, r |-> c.r]

KeyAt(n, c) == input[n][c.i] + Period * c.r

\* The value of a map's element: the input and the place it came from.
DataAt(n, c) == <<n, c.i>>

\* Keys are only ever compared, and comparing is unchanged when every key held
\* drops by the same amount: once both inputs have left round d behind, rounds
\* are counted from d.
Rebase(rn) ==
    LET d == IF rn.cur["s1"].r < rn.cur["s2"].r THEN rn.cur["s1"].r ELSE rn.cur["s2"].r
    IN  [rn EXCEPT !.cur = [n \in DOMAIN rn.cur |-> [i |-> rn.cur[n].i, r |-> rn.cur[n].r - d]],
                   !.loc = [f \in DOMAIN rn.loc |->
                               IF f \in KeyFields THEN rn.loc[f] - Period * d ELSE rn.loc[f]]]

\* The call goes on at pc with locals loc, the element at c of input n pulled.
Advance(n, c, loc, pc) ==
    Rebase([run EXCEPT !.cur[n] = [i |-> c.i, r |-> c.r], !.loc = loc, !.pc = pc])

\* return res
Return(res) == [run EXCEPT !.pc = "idle", !.loc = NoLocals, !.ret = res]

Frame == <<input, pos, adaptor, comb, log, out, last, seenNone>>

\* The caller calls next() on an inner join.
Stmt_call ==
    /\ run.pc = "idle"
    /\ adaptor.tag \in {"InnerJoinMap", "InnerJoinMapSet", "InnerJoinSet"}
    /\ run' = [run EXCEPT !.pc = "first", !.ret = Pending]
    /\ UNCHANGED Frame

\* InnerJoinSet::next, let mut key_a = match self.a.next()
Stmt_InnerJoinSet_a ==
    /\ adaptor.tag = "InnerJoinSet" /\ run.pc = "first"
    /\ LET n == adaptor.a.src
           c == Cursor_next(n)
       IN  run' = IF ~c.some THEN Return(None)
                  ELSE Advance(n, c, [key_a |-> KeyAt(n, c)], "second")
    /\ UNCHANGED Frame

\* InnerJoinSet::next, let mut key_b = match self.b.next()
Stmt_InnerJoinSet_b ==
    /\ adaptor.tag = "InnerJoinSet" /\ run.pc = "second"
    /\ LET n == adaptor.b.src
           c == Cursor_next(n)
       IN  run' = IF ~c.some THEN Return(None)
                  ELSE Advance(n, c, [key_a |-> run.loc.key_a, key_b |-> KeyAt(n, c)], "loop")
    /\ UNCHANGED Frame

\* Faulty variant: an exhausted input does not end the loop.
Stmt_InnerJoinSet_loopNoExit ==
    /\ adaptor.tag = "InnerJoinSet" /\ run.pc = "loop"
    /\ LET o == Cmp(run.loc.key_a, run.loc.key_b)
           na == adaptor.a.src
           nb == adaptor.b.src
           ca == Cursor_next(na)
           cb == Cursor_next(nb)
       IN  run' = CASE o = "Less" ->
                         IF ~ca.some THEN run
                         ELSE Advance(na, ca, [run.loc EXCEPT !.key_a = KeyAt(na, ca)], "loop")
                    [] o = "Equal" -> Return(Some(run.loc.key_a))
                    [] o = "Greater" ->
                         IF ~cb.some THEN run
                         ELSE Advance(nb, cb, [run.loc EXCEPT !.key_b = KeyAt(nb, cb)], "loop")
    /\ UNCHANGED Frame

\* InnerJoinSet::next, one turn of the loop
Stmt_InnerJoinSet_loop ==
    /\ adaptor.tag = "InnerJoinSet" /\ run.pc = "loop"
    /\ LET o == Cmp(run.loc.key_a, run.loc.key_b)
           na == adaptor.a.src
           nb == adaptor.b.src
           ca == Cursor_next(na)
           cb == Cursor_next(nb)
       IN  run' = CASE o = "Less" ->
                         IF ~ca.some THEN Return(None)
                         ELSE Advance(na, ca, [run.loc EXCEPT !.key_a = KeyAt(na, ca)], "loop")
                    [] o = "Equal" -> Return(Some(run.loc.key_a))
                    [] o = "Greater" ->
                         IF ~cb.some THEN Return(None)
                         ELSE Advance(nb, cb, [run.loc EXCEPT !.key_b = KeyAt(nb, cb)], "loop")
    /\ UNCHANGED Frame

\* InnerJoinMap::next, let (mut key_a, mut data_a) = match self.a.next()
Stmt_InnerJoinMap_a ==
    /\ adaptor.tag = "InnerJoinMap" /\ run.pc = "first"
    /\ LET n == adaptor.a.src
           c == Cursor_next(n)
       IN  run' = IF ~c.some THEN Return(None)
                  ELSE Advance(n, c, [key_a |-> KeyAt(n, c), data_a |-> DataAt(n, c)], "second")
    /\ UNCHANGED Frame

\* InnerJoinMap::next, let (mut key_b, mut data_b) = match self.b.next()
Stmt_InnerJoinMap_b ==
    /\ adaptor.tag = "InnerJoinMap" /\ run.pc = "second"
    /\ LET n == adaptor.b.src
           c == Cursor_next(n)
       IN  run' = IF ~c.some THEN Return(None)
                  ELSE Advance(n, c, [key_a |-> run.loc.key_a, data_a |-> run.loc.data_a,
                                      key_b |-> KeyAt(n, c), data_b |-> DataAt(n, c)], "loop")
    /\ UNCHANGED Frame

\* InnerJoinMap::next, one turn of the loop
Stmt_InnerJoinMap_loop ==
    /\ adaptor.tag = "InnerJoinMap" /\ run.pc = "loop"
    /\ LET o == Cmp(run.loc.key_a, run.loc.key_b)
           na == adaptor.a.src
           nb == adaptor.b.src
           ca == Cursor_next(na)
           cb == Cursor_next(nb)
       IN  run' = CASE o = "Less" ->
                         IF ~ca.some THEN Return(None)
                         ELSE Advance(na, ca, [run.loc EXCEPT !.key_a = KeyAt(na, ca),
                                                              !.data_a = DataAt(na, ca)], "loop")
                    [] o = "Equal" ->
                         Return(Some([k |-> run.loc.key_a,
                                      v |-> <<run.loc.data_a, run.loc.data_b>>]))
                    [] o = "Greater" ->
                         IF ~cb.some THEN Return(None)
                         ELSE Advance(nb, cb, [run.loc EXCEPT !.key_b = KeyAt(nb, cb),
                                                              !.data_b = DataAt(nb, cb)], "loop")
    /\ UNCHANGED Frame

\* InnerJoinMapSet::next, let mut key_set = match self.set.next()
Stmt_InnerJoinMapSet_set ==
    /\ adaptor.tag = "InnerJoinMapSet" /\ run.pc = "first"
    /\ LET n == adaptor.set.src
           c == Cursor_next(n)
       IN  run' = IF ~c.some THEN Return(None)
                  ELSE Advance(n, c, [key_set |-> KeyAt(n, c)], "second")
    /\ UNCHANGED Frame

\* InnerJoinMapSet::next, let (mut key_map, mut data) = match self.map.next()
Stmt_InnerJoinMapSet_map ==
    /\ adaptor.tag = "InnerJoinMapSet" /\ run.pc = "second"
    /\ LET n == adaptor.map.src
           c == Cursor_next(n)
       IN  run' = IF ~c.some THEN Return(None)
                  ELSE Advance(n, c, [key_set |-> run.loc.key_set,
                                      key_map |-> KeyAt(n, c), data |-> DataAt(n, c)], "loop")
    /\ UNCHANGED Frame

\* InnerJoinMapSet::next, one turn of the loop
Stmt_InnerJoinMapSet_loop ==
    /\ adaptor.tag = "InnerJoinMapSet" /\ run.pc = "loop"
    /\ LET o == Cmp(run.loc.key_set, run.loc.key_map)
           ns == adaptor.set.src
           nm == adaptor.map.src
           cs == Cursor_next(ns)
           cm == Cursor_next(nm)
       IN  run' = CASE o = "Less" ->
                         IF ~cs.some THEN Return(None)
                         ELSE Advance(ns, cs, [run.loc EXCEPT !.key_set = KeyAt(ns, cs)], "loop")
                    [] o = "Equal" ->
                         Return(Some([k |-> run.loc.key_set, v |-> run.loc.data]))
                    [] o = "Greater" ->
                         IF ~cm.some THEN Return(None)
                         ELSE Advance(nm, cm, [run.loc EXCEPT !.key_map = KeyAt(nm, cm),
                                                              !.data = DataAt(nm, cm)], "loop")
    /\ UNCHANGED Frame

\* The statements of a call in progress.
Stmts ==
    \/ Stmt_InnerJoinSet_a
    \/ Stmt_InnerJoinSet_b
    \/ Stmt_InnerJoinSet_loop
    \/ Stmt_InnerJoinMap_a
    \/ Stmt_InnerJoinMap_b
    \/ Stmt_InnerJoinMap_loop
    \/ Stmt_InnerJoinMapSet_set
    \/ Stmt_InnerJoinMapSet_map
    \/ Stmt_InnerJoinMapSet_loop

NextLoop ==
    \/ Call_inner_join_map
    \/ Call_map_inner_join_set
    \/ Call_set_inner_join_map
    \/ Call_set_inner_join_set
    \/ Stmt_call
    \/ Stmts

\* A call, once made, runs on: the code is sequential and nothing suspends it.
SpecLoop == InitLoop /\ [][NextLoop]_vars /\ WF_vars(Stmts)

Running == run.pc \in {"first", "second", "loop"}

\* C9 as claimed: every next() call returns, whether the inputs end or not.
C9_EveryCallReturns == Running ~> (run.pc = "idle")

\* C9: over inputs that end, every next() call of an inner join returns.
C9_FiniteCallReturns == (Running /\ ~run.cyc) ~> (run.pc = "idle")

\* A call over inputs that end, in its loop after pulling twice from each input.
C9_Witness ==
    /\ run.pc = "loop" /\ ~run.cyc
    /\ run.cur["s1"].i >= 2 /\ run.cur["s2"].i >= 2

(***************************************************************************)
(* What the joins are to produce, computed from the inputs alone.          *)
(***************************************************************************)
Keys(n) == {input[n][i] : i \in 1..Len(input[n])}

\* The value a strictly ascending map input n associates with key k.
ValOf(n, k) == <<n, CHOOSE i \in 1..Len(input[n]) : input[n][i] = k>>

IsPrefix(s, t) == Len(s) <= Len(t) /\ \A i \in 1..Len(s) : s[i] = t[i]

ExpectedInnerJoinMap ==
    LET ks == SeqOfSet(Keys("s1") \cap Keys("s2"))
    IN  [i \in 1..Len(ks) |-> [k |-> ks[i], v |-> <<ValOf("s1", ks[i]), ValOf("s2", ks[i])>>]]

ExpectedOuterJoin ==
    LET ks == SeqOfSet(Keys("s1") \cup Keys("s2"))
        slot(n, k) == IF k \in Keys(n) THEN Some(ValOf(n, k)) ELSE None
    IN  [i \in 1..Len(ks) |-> [k |-> ks[i], v |-> <<slot("s1", ks[i]), slot("s2", ks[i])>>]]

ExpectedInnerJoinSet == SeqOfSet(Keys("s1") \cap Keys("s2"))

\* The entries of map s1 whose key is an element of set s2.
ExpectedInnerJoinMapSet ==
    LET ks == SeqOfSet(Keys("s1") \cap Keys("s2"))
    IN  [i \in 1..Len(ks) |-> [k |-> ks[i], v |-> ValOf("s1", ks[i])]]

ExpectedChain == SeqOfSet(Keys("s1") \cap Keys("s2") \cap Keys("s3"))

\* C1: the output of s1.inner_join_map(s2), drained, is exactly one item
\* (k, (s1[k], s2[k])) per key k of both maps, in ascending key order; before
\* exhaustion the output is a prefix of it.
C1_InnerJoinMapExact ==
    comb = "map.inner_join_map" =>
        /\ IsPrefix(out, ExpectedInnerJoinMap)
        /\ seenNone => out = ExpectedInnerJoinMap

C1_Witness ==
    /\ comb = "map.inner_join_map" /\ seenNone /\ Len(out) >= 2
    /\ Keys("s1") # Keys("s2")

\* C2: the output of s1.outer_join(s2), drained, is exactly one item per key of
\* either map, ascending, the left slot Some(s1[k]) or None and the right slot
\* Some(s2[k]) or None as the key is or is not a key of that map.
C2_OuterJoinExact ==
    comb = "outer_join" =>
        /\ IsPrefix(out, ExpectedOuterJoin)
        /\ seenNone => out = ExpectedOuterJoin

\* Drained, with a matched key, and with the right side exhausted first.
C2_Witness ==
    /\ comb = "outer_join" /\ seenNone /\ Len(out) >= 3
    /\ Keys("s1") \cap Keys("s2") # {}
    /\ \E k \in Keys("s1") : \A j \in Keys("s2") : j < k

\* C3: the output of s1.inner_join_set(s2), drained, is the intersection of the
\* two sets, each element once, ascending.
C3_InnerJoinSetExact ==
    comb = "set.inner_join_set" =>
        /\ IsPrefix(out, ExpectedInnerJoinSet)
        /\ seenNone => out = ExpectedInnerJoinSet

C3_Witness ==
    /\ comb = "set.inner_join_set" /\ seenNone /\ Len(out) >= 2
    /\ Keys("s1") # Keys("s2")

\* C4: with s1 a map and s2 a set, s1.inner_join_set(s2) and s2.inner_join_map(s1)
\* both produce, drained, exactly the entries (k, s1[k]) of the map whose key is
\* in the set, ascending.
C4_MapSetExact ==
    comb \in {"map.inner_join_set", "set.inner_join_map"} =>
        /\ IsPrefix(out, ExpectedInnerJoinMapSet)
        /\ seenNone => out = ExpectedInnerJoinMapSet

C4_Witness ==
    /\ comb = "set.inner_join_map" /\ seenNone /\ Len(out) >= 2
    /\ Keys("s1") \ Keys("s2") # {}
    /\ Keys("s2") \ Keys("s1") # {}

\* The key of the i-th item of the output (a set adaptor's item is the key).
OutKey(i) == IF comb \in {"set.inner_join_set", "chain"} THEN out[i] ELSE out[i].k

\* C5: over strictly ascending inputs, the keys every adaptor emits are strictly
\* ascending.
C5_OutputAscending == \A i \in 1..(Len(out) - 1) : OutKey(i) < OutKey(i + 1)

\* An outer join that has emitted a matched key and then a one-sided one.
C5_Witness ==
    /\ comb = "outer_join" /\ Len(out) >= 3
    /\ \E i \in 1..(Len(out) - 1) : out[i].v[2] # None /\ out[i].v[1] # None
                                       /\ out[i + 1].v[1] = None

InnerCombs ==
    {"map.inner_join_map", "map.inner_join_set", "set.inner_join_map",
     "set.inner_join_set", "chain"}

Exhausted(n) == pos[n] = Len(input[n])

\* C6: a next() call of an inner join returns None exactly when one of its pulls
\* reported exhaustion, and that pull is the last pull of the call (nothing is
\* pulled from the other input after it); a next() call of the outer join returns
\* None only when both inputs are exhausted and neither look-ahead slot holds an
\* element.
C6_ExhaustionPolicy ==
    /\ (comb \in InnerCombs /\ last.called) =>
          /\ \A i \in 1..(Len(log) - 1) : log[i].some
          /\ (last.r = None) <=> (Len(log) > 0 /\ ~log[Len(log)].some)
    /\ (comb = "outer_join" /\ last.called /\ last.r = None) =>
          /\ Exhausted("s1") /\ Exhausted("s2")
          /\ adaptor.left.peeked = Some(None)
          /\ adaptor.right.peeked = Some(None)

\* An inner join that returned None when its left input ran out, after some
\* pulls, while the right input still holds elements.
C6_Witness ==
    /\ comb = "map.inner_join_map" /\ last.called /\ last.r = None
    /\ Len(log) >= 2 /\ log[Len(log)].src = "s1"
    /\ ~Exhausted("s2")

\* C8: no next() call panics, whatever the inputs: an expect() of the outer join
\* is reached only when the slot it takes holds an element.
C8_NoPanic == last.r # Panic

\* An outer join over two inputs that are not ascending, drained.
C8_Witness ==
    /\ comb = "outer_join" /\ seenNone /\ Len(out) >= 3
    /\ ~StrictlyAscending(input["s1"]) /\ ~StrictlyAscending(input["s2"])

\* C10: a combinator pulls nothing: until the first next() call no element has
\* been pulled from any input and the look-ahead slots are empty.
C10_Lazy ==
    ~last.called =>
        /\ \A n \in Src : pos[n] = 0
        /\ log = <<>>
        /\ adaptor.tag = "OuterJoin" =>
              adaptor.left.peeked = None /\ adaptor.right.peeked = None

C10_Witness ==
    /\ adaptor.tag = "OuterJoin" /\ ~last.called
    /\ input["s1"] # <<>> /\ input["s2"] # <<>>

\* C7: the output of s1.inner_join_set(s2).inner_join_set(s3), drained, is the
\* intersection of the three sets, ascending.
C7_ChainExact ==
    comb = "chain" =>
        /\ IsPrefix(out, ExpectedChain)
        /\ seenNone => out = ExpectedChain

\* Drained, where the third set removes an element the first two share.
C7_Witness ==
    /\ comb = "chain" /\ seenNone /\ Len(out) >= 2
    /\ (Keys("s1") \cap Keys("s2")) \ Keys("s3") # {}
    /\ Keys("s3") \ Keys("s1") # {}

(***************************************************************************)
(* What an adaptor holds between calls, and what a call pulls.             *)
(***************************************************************************)
RECURSIVE HoldsNoElement(_)
\* The adaptor's fields are its wrapped iterators and nothing else.
HoldsNoElement(it) ==
    CASE it.tag \in {"MapIter", "SetIter"} -> DOMAIN it = {"tag", "src"}
      [] it.tag \in {"InnerJoinMap", "InnerJoinSet"} ->
            /\ DOMAIN it = {"tag", "a", "b"}
            /\ HoldsNoElement(it.a) /\ HoldsNoElement(it.b)
      [] it.tag = "InnerJoinMapSet" ->
            /\ DOMAIN it = {"tag", "map", "set"}
            /\ HoldsNoElement(it.map) /\ HoldsNoElement(it.set)
      [] OTHER -> FALSE

\* How many elements of input n have a key of at most k.
UpTo(n, k) == Cardinality({i \in 1..Len(input[n]) : input[n][i] <= k})

\* The input an inner join's next() pulls first, and the one it pulls after it.
FirstSide == IF comb \in {"map.inner_join_set", "set.inner_join_map"} THEN "s2" ELSE "s1"
SecondSide ==
    CASE comb \in {"map.inner_join_set", "set.inner_join_map"} -> "s1"
      [] comb = "chain" -> "s3"
      [] OTHER -> "s2"

\* An inner join has just returned an item.
Matched == comb \in InnerCombs /\ last.r.t = "Some"

C11_AfterMatch ==
    Matched =>
        /\ \A n \in Src : pos[n] = UpTo(n, OutKey(Len(out)))
        /\ HoldsNoElement(adaptor)

\* The call that follows a match: its first pull is a new element of the first
\* side and, unless that side has run out, a new element of the other side is
\* pulled as well.
C11_NextCallPullsBoth ==
    Matched =>
        /\ log' # <<>> /\ log'[1].src = FirstSide
        /\ log'[1].some => pos'[FirstSide] > pos[FirstSide]
        /\ comb # "chain" =>
              (log'[1].some => /\ Len(log') >= 2 /\ log'[2].src = SecondSide
                               /\ log'[2].some => pos'[SecondSide] > pos[SecondSide])
        /\ comb = "chain" =>
              \/ \E j \in 1..Len(log') : log'[j].src = SecondSide /\ log'[j].some
                                            /\ pos'[SecondSide] > pos[SecondSide]
              \/ ~log'[Len(log')].some

\* C11: right after an inner join's next() returns an item with key k, what has
\* been pulled from each input is exactly its elements with key <= k, the adaptor
\* holds no element, and the next call pulls a new element from both sides (from
\* the second one unless the first has run out).
C11_MatchConsumesOnce == []C11_AfterMatch /\ [][C11_NextCallPullsBoth]_vars

\* Two matches in a row, the second after skipping an unmatched element, with a
\* greater element left in each input.
C11_Witness ==
    /\ comb = "map.inner_join_map" /\ last.r.t = "Some" /\ Len(out) >= 2
    /\ Len(log) >= 3
    /\ ~Exhausted("s1") /\ ~Exhausted("s2")

(***************************************************************************)
(* The outer join's look-ahead.  An item's slot i holds the value <<n, j>>  *)
(* of the element at place j of input n, so the places emitted can be read  *)
(* off the output.                                                         *)
(***************************************************************************)
\* The slot of an outer-join item that input n fills, and n's Peekable.
SlotOf(n) == IF n = "s1" THEN 1 ELSE 2
PeekableOf(n) == IF n = "s1" THEN adaptor.left ELSE adaptor.right

\* The output items that hold the element at place j of input n.
EmittedAt(n, j) == {i \in 1..Len(out) : out[i].v[SlotOf(n)] = Some(<<n, j>>)}

\* The places of input n pulled from it and not emitted so far.
Held(n) == {j \in 1..pos[n] : EmittedAt(n, j) = {}}

\* The places of input n whose element sits in the look-ahead slot.
InSlot(n) ==
    LET pk == PeekableOf(n).peeked
    IN  IF pk.t = "Some" /\ pk.val.t = "Some" THEN {pk.val.val.v[2]} ELSE {}

\* The successful pulls of the latest call from input n.
PullsFrom(n) == {i \in 1..Len(log) : log[i].src = n /\ log[i].some}

\* C12: in every state of an outer join, for each side: at most one element has
\* been pulled and not emitted, and it is the one in the look-ahead slot; the
\* latest call pulled at most one element from the input; no element is in two
\* output items, nothing not pulled is in the output, and once the join has
\* returned None every element of the input is in exactly one output item.
C12_OneSlotLookahead ==
    comb = "outer_join" =>
        \A n \in {"s1", "s2"} :
            /\ Cardinality(Held(n)) <= 1
            /\ Held(n) = InSlot(n)
            /\ Cardinality(PullsFrom(n)) <= 1
            /\ \A j \in 1..Len(input[n]) :
                  /\ Cardinality(EmittedAt(n, j)) <= 1
                  /\ j > pos[n] => EmittedAt(n, j) = {}
                  /\ seenNone => Cardinality(EmittedAt(n, j)) = 1

\* An outer join holding a pulled element of s2 in its slot after emitting two
\* items, one of them a matched pair.
C12_Witness ==
    /\ comb = "outer_join" /\ Len(out) >= 2
    /\ Held("s2") # {} /\ Held("s1") = {}
    /\ \E i \in 1..Len(out) : out[i].v[1] # None /\ out[i].v[2] # None

\* C13: whatever the inputs, no item the outer join returns has both slots
\* absent.
C13_NeverBothAbsent ==
    comb = "outer_join" =>
        /\ \A i \in 1..Len(out) : out[i].v # <<None, None>>
        /\ last.r.t = "Some" => last.r.val.v # <<None, None>>

\* An outer join over inputs that are not ascending, drained, having emitted an
\* item with only the left slot present and one with only the right.
C13_Witness ==
    /\ comb = "outer_join" /\ seenNone
    /\ ~StrictlyAscending(input["s1"]) /\ ~StrictlyAscending(input["s2"])
    /\ \E i \in 1..Len(out) : out[i].v[1] = None
    /\ \E i \in 1..Len(out) : out[i].v[2] = None

(***************************************************************************)
(* A whole run of an adaptor taken at once: next() is called until it      *)
(* returns None and the items are collected, as Iterator::collect and the  *)
(* for loop of the tests do.                                               *)
(***************************************************************************)
\* Nothing pulled from any input.
Fresh == [pos |-> [n \in Src |-> 0], log |-> <<>>]

RECURSIVE CollectSet(_, _)
CollectSet(it, w) ==
    LET x == SetNext(it, w)
    IN  IF x.r = None THEN <<>> ELSE <<x.r.val>> \o CollectSet(it, x.w)

\* s1.inner_join_set(s2) and s2.inner_join_set(s1), newly built.
SetJoin12 == OrderedSetIterator_inner_join_set(SetIter("s1"), SetIter("s2"), Fresh).it
SetJoin21 == OrderedSetIterator_inner_join_set(SetIter("s2"), SetIter("s1"), Fresh).it

\* C14: what s1.inner_join_set(s2) returns call by call is what
\* s2.inner_join_set(s1) returns: the output so far is a prefix of the other
\* join's whole output, equal to it once drained, and the two whole outputs are
\* the same sequence.
C14_SetJoinSymmetric ==
    comb = "set.inner_join_set" =>
        /\ IsPrefix(out, CollectSet(SetJoin21, Fresh))
        /\ seenNone => out = CollectSet(SetJoin21, Fresh)
        /\ CollectSet(SetJoin12, Fresh) = CollectSet(SetJoin21, Fresh)

\* Drained with two common elements, each set holding an element the other
\* lacks, so that either order of the operands skips elements on both sides.
C14_Witness ==
    /\ comb = "set.inner_join_set" /\ seenNone /\ Len(out) >= 2
    /\ Keys("s1") \ Keys("s2") # {}
    /\ Keys("s2") \ Keys("s1") # {}

(***************************************************************************)
(* The outer join over inputs whose keys repeat.                           *)
(***************************************************************************)
NonDecreasing(s) == \A i \in 1..(Len(s) - 1) : s[i] <= s[i + 1]

HasDuplicate(s) == \E i \in 1..(Len(s) - 1) : s[i] = s[i + 1]

\* The slot of an item is absent, or holds an element of input n with the item's key.
SlotKeyed(item, n) ==
    LET sl == item.v[SlotOf(n)]
    IN  sl # None => /\ sl.val[1] = n
                     /\ sl.val[2] \in 1..Len(input[n])
                     /\ input[n][sl.val[2]] = item.k

\* C15: over inputs whose keys never decrease but may repeat, the keys the outer
\* join emits never decrease, a present slot holds an element of its own side
\* with the item's key, no item has both slots absent, no element is in two
\* items, and once the join has returned None every element of both inputs is
\* in exactly one item.
C15_OuterJoinDuplicates ==
    (comb = "outer_join" /\ NonDecreasing(input["s1"]) /\ NonDecreasing(input["s2"])) =>
        /\ \A i \in 1..(Len(out) - 1) : out[i].k <= out[i + 1].k
        /\ \A i \in 1..Len(out) :
              /\ SlotKeyed(out[i], "s1") /\ SlotKeyed(out[i], "s2")
              /\ out[i].v[1] # None \/ out[i].v[2] # None
        /\ \A n \in {"s1", "s2"} : \A j \in 1..Len(input[n]) :
              /\ Cardinality(EmittedAt(n, j)) <= 1
              /\ seenNone => Cardinality(EmittedAt(n, j)) = 1

\* Drained, a key repeated in s1 that s2 holds as well, and s2 with a repeated
\* key of its own.
C15_Witness ==
    /\ comb = "outer_join" /\ seenNone
    /\ NonDecreasing(input["s1"]) /\ NonDecreasing(input["s2"])
    /\ HasDuplicate(input["s2"])
    /\ \E i \in 1..(Len(input["s1"]) - 1) :
          input["s1"][i] = input["s1"][i + 1] /\ input["s1"][i] \in Keys("s2")

(***************************************************************************)
(* The inner join of two maps against their outer join.                    *)
(***************************************************************************)
RECURSIVE CollectInnerJoinMap(_, _)
CollectInnerJoinMap(it, w) ==
    LET x == InnerJoinMap_next(it, w)
    IN  IF x.r = None THEN <<>> ELSE <<x.r.val>> \o CollectInnerJoinMap(it, x.w)

RECURSIVE CollectOuterJoin(_, _)
CollectOuterJoin(it, w) ==
    LET x == OuterJoin_next(it, w)
    IN  IF x.r.t # "Some" THEN <<>> ELSE <<x.r.val>> \o CollectOuterJoin(x.it, x.w)

\* s1.inner_join_map(s2) and s1.outer_join(s2), newly built.
MapJoin12 == OrderedMapIterator_inner_join_map(MapIter("s1"), MapIter("s2"), Fresh).it
OuterJoin12 == OrderedMapIterator_outer_join(MapIter("s1"), MapIter("s2"), Fresh).it

RECURSIVE BothPresent(_)
\* The items of an outer join's output with both slots present, in order,
\* (k, (Some(a), Some(b))) as (k, (a, b)).
BothPresent(items) ==
    IF items = <<>> THEN <<>>
    ELSE LET x == Head(items)
         IN  IF x.v[1] # None /\ x.v[2] # None
             THEN <<[k |-> x.k, v |-> <<x.v[1].val, x.v[2].val>>]>> \o BothPresent(Tail(items))
             ELSE BothPresent(Tail(items))

\* C16: the items s1.inner_join_map(s2) returns are the both-present items of
\* what s1.outer_join(s2) returns, unwrapped, in the same order: either join's
\* output so far agrees with a prefix of the other's whole output, and with all
\* of it once drained.
C16_InnerIsBothPresentOfOuter ==
    /\ comb = "map.inner_join_map" =>
          /\ IsPrefix(out, BothPresent(CollectOuterJoin(OuterJoin12, Fresh)))
          /\ seenNone => out = BothPresent(CollectOuterJoin(OuterJoin12, Fresh))
    /\ comb = "outer_join" =>
          /\ IsPrefix(BothPresent(out), CollectInnerJoinMap(MapJoin12, Fresh))
          /\ seenNone => BothPresent(out) = CollectInnerJoinMap(MapJoin12, Fresh)

\* A drained outer join with two matched keys, a key of s1 alone and a key of
\* s2 alone.
C16_Witness ==
    /\ comb = "outer_join" /\ seenNone
    /\ Len(BothPresent(out)) >= 2
    /\ \E i \in 1..Len(out) : out[i].v[1] = None
    /\ \E i \in 1..Len(out) : out[i].v[2] = None

\* C17: the inputs here report exhaustion for good once they have reported it.
\* Once a next() call on an adaptor has returned None, the latest call has
\* returned None, and every later call returns None and adds nothing to the
\* output.
C17_ExhaustionPermanent ==
    /\ [](seenNone => last.r = None)
    /\ [][seenNone => (last'.r = None /\ out' = out)]_vars

\* An inner join that matched the first element of s1 against the only element
\* of s2 and has since returned None at least twice, the latest call pulling an
\* element of s1 and discarding it.
C17_Witness ==
    /\ comb = "map.inner_join_map" /\ seenNone
    /\ Len(input["s1"]) >= 3 /\ input["s2"] = <<input["s1"][1]>>
    /\ Len(out) = 1 /\ pos["s1"] >= 3
    /\ log = <<[src |-> "s1", some |-> TRUE], [src |-> "s2", some |-> FALSE]>>

====
